---- MODULE Spec2Model ----
(***************************************************************************)
(* DER Integration Analytics (src/app.py): the synthetic data generators   *)
(* of class DERAnalytics, the st.cache_data cache in front of them, and    *)
(* the Streamlit script main() that renders them.                          *)
(*                                                                         *)
(* Real numbers are fixed point.  Telemetry, percentages and coordinates   *)
(* carry three decimals (Milli); the forecast carries four (PScale).       *)
(* A fixed-point value v stands for the real number v / scale.            *)
(* Products are rescaled with floor division.                              *)
(*                                                                         *)
(* numpy's generator is a deterministic function of the seed and of the    *)
(* number of draws made since seeding.  Which function is not modelled     *)
(* bit for bit: the variable mt picks one member of an affine family, once *)
(* and for all, so that a seed always replays the same stream while every  *)
(* draw site still sees every raw value.                                   *)
(***************************************************************************)
EXTENDS Integers, Sequences, FiniteSets, TLC

VARIABLES
  mt,        \* the generator: offset a and stride b of the raw stream
  trial,     \* generator harness: function under test, its two outputs
  pc,        \* position of the running script (main)
  reruns,    \* script reruns started so far in this server process
  cache,     \* st.cache_data: function name -> cached frame, or None
  bodyRuns,  \* function name -> number of executions of its body
  heap,      \* the DERAnalytics object: field name -> frame, or None
  session,   \* the browser session: the value each sidebar widget is set to
  widgets,   \* values the three sidebar widgets returned in this script run
  ui         \* what the script has rendered in the current rerun

vars == <<mt, trial, pc, reruns, cache, bodyRuns, heap, session, widgets, ui>>

None == "None"

----------------------------------------------------------------------------
(* Bounds of the model *)

\* resolution of one raw draw: raw values are 0..RawMax-1
RawMax == 7
\* largest |z| a normal draw reaches, in standard deviations
ZMax == 24
\* pd.date_range(periods=720): hourly periods generated (720 in the code)
Periods == 25
\* range(1, 101): meters generated (100 in the code)
NumMeters == 2
\* range(1, 501): chargers generated (500 in the code)
NumChargers == 2
\* range(1, 1001): inverters generated (1000 in the code)
NumInverters == 1
\* range(1, 51) and randint(1, 51): feeders (50 in the code)
NumFeeders == 3
\* script reruns explored in one server process
MaxReruns == 2

----------------------------------------------------------------------------
(* Arithmetic *)

\* one unit of a three-decimal and of a four-decimal fixed-point number
Milli == 10^3
PScale == 10^4

Max(a, b) == IF a >= b THEN a ELSE b
Min(a, b) == IF a <= b THEN a ELSE b

\* sin(k*pi/12) for k = 0..6, three decimals
SinQuarter == <<0, 259, 500, 707, 866, 966, 1000>>

\* sin(k*pi/12), any integer k
SinPi12(k) ==
  LET m == k % 24
      q == IF m <= 6 THEN m ELSE IF m <= 12 THEN 12 - m
           ELSE IF m <= 18 THEN m - 12 ELSE 24 - m
  IN  IF m <= 12 THEN SinQuarter[q + 1] ELSE 0 - SinQuarter[q + 1]

\* sin(k*pi/8) for k = 0..4, three decimals
SinEighth == <<0, 383, 707, 924, 1000>>

\* sin(k*pi/8), any integer k
SinPi8(k) ==
  LET m == k % 16
      q == IF m <= 4 THEN m ELSE IF m <= 8 THEN 8 - m
           ELSE IF m <= 12 THEN m - 8 ELSE 16 - m
  IN  IF m <= 8 THEN SinEighth[q + 1] ELSE 0 - SinEighth[q + 1]

\* sin(k*pi/6)
SinPi6(k) == SinPi12(2 * k)

\* exp(-0.5 * (d/4)^2) for d = 0..6, three decimals
ExpTable == <<1000, 969, 883, 755, 607, 458, 325>>

\* np.exp(-0.5 * ((hour - 12) / 4) ** 2) for 6 <= hour <= 18
HourFactor(hour) == ExpTable[(IF hour >= 12 THEN hour - 12 ELSE 12 - hour) + 1]

----------------------------------------------------------------------------
(* Calendar: a clock value is a number of hours since 2024-01-01 00:00,    *)
(* a Monday.                                                               *)

\* days before the end of each month of 2024
MonthEnds == <<31, 60, 91, 121, 152, 182, 213, 244, 274, 305, 335, 366>>

TsHour(ts) == ts % 24
TsDayOfWeek(ts) == (ts \div 24) % 7
TsMonth(ts) ==
  LET d == (ts \div 24) % 366
  IN  1 + Cardinality({m \in 1..12 : MonthEnds[m] <= d})

\* values datetime.now() takes: 2024-03-15 10:00 (Fri), 2024-07-20 20:00
\* (Sat), 2024-11-03 03:00 (Sun), 2024-06-05 12:00 (Wed)
Nows == {1786, 4844, 7371, 3756}

\* timedelta(days=30), in hours
WindowHours == 30 * 24

\* dates[::step]: the timestamps kept, in order
DateSamples(now, step) ==
  [k \in 1..((Periods - 1) \div step + 1) |-> now - WindowHours + (k - 1) * step]

----------------------------------------------------------------------------
(* numpy.random *)

Gens == [a : 0..(RawMax - 1), b : 0..(RawMax - 1)]

\* the draw number i (from 0) after np.random.seed(seed)
Raw(seed, i) == (mt.a + seed + mt.b * i) % RawMax

\* np.random.choice(items, p=...): every weight is positive, so every item
\* is a possible result
Choice(items, raw) == items[1 + (raw * Len(items)) \div RawMax]

\* np.random.uniform(lo, hi): lo <= result < hi
Uniform(lo, hi, raw) == lo + ((hi - lo) * raw) \div RawMax

\* np.random.normal(0, sigma): unbounded in principle, here within ZMax sigma
Normal(sigma, raw) == (sigma * ZMax * (2 * raw - (RawMax - 1))) \div (RawMax - 1)

\* np.random.randint(lo, hi): lo <= result < hi
RandInt(lo, hi, raw) == lo + ((hi - lo) * raw) \div RawMax

\* np.random.random() < prob, prob in tenths
RandomBelow(probTenths, raw) == raw * 10 < probTenths * RawMax

----------------------------------------------------------------------------
(* Identifiers *)

\* f"{n:06d}"
Pad6(n) ==
  LET s == ToString(n)
  IN  IF n < 10 THEN "00000" \o s
      ELSE IF n < 100 THEN "0000" \o s
      ELSE IF n < 1000 THEN "000" \o s
      ELSE IF n < 10000 THEN "00" \o s
      ELSE IF n < 100000 THEN "0" \o s
      ELSE s

\* f"FEEDER_{n}"
FeederName(n) == "FEEDER_" \o ToString(n)

\* the draw with the upper end included
DeviceFeederDrawInclusive(raw) == RandInt(1, NumFeeders + 2, raw)

\* np.random.randint(1, 51) of the three device generators
DeviceFeederDraw(raw) == RandInt(1, NumFeeders + 1, raw)

----------------------------------------------------------------------------
(* generate_smart_meter_data *)

\* the base load of one sample, before the seasonal adjustment
MeterBaseLoad(meter_type, hour, day_of_week, raw) ==
  IF meter_type = "Residential"
  THEN LET b == 2500 + (1500 * SinPi12(hour - 6)) \div Milli
       IN  IF day_of_week < 5 THEN (b * 900) \div Milli ELSE b
  ELSE IF meter_type = "Commercial"
  THEN LET b == 15000 + (8000 * SinPi8(hour - 12)) \div Milli
       IN  IF day_of_week >= 5 THEN (b * 300) \div Milli ELSE b
  ELSE 45000 + (15000 * Normal(200, raw)) \div Milli

\* the load left as computed
ClampLoadNone(load_kw) == load_kw

\* max(0, load_kw)
ClampLoad(load_kw) == Max(0, load_kw)

\* base_load * seasonal_factor * (1 + noise), clamped
MeterLoad(base_load, month, raw) ==
  LET seasonal_factor == Milli + (300 * SinPi6(month - 6)) \div Milli
      load_kw == (((base_load * seasonal_factor) \div Milli)
                    * (Milli + Normal(100, raw))) \div Milli
  IN  ClampLoad(load_kw)

\* one pass of the inner loop: the row appended and the draws consumed
MeterSample(meter_id, meter_type, timestamp, pos) ==
  LET industrial == meter_type \notin {"Residential", "Commercial"}
      base_load == MeterBaseLoad(meter_type, TsHour(timestamp),
                                 TsDayOfWeek(timestamp), Raw(42, pos))
      p == IF industrial THEN pos + 1 ELSE pos
  IN  [row |-> [meter_id   |-> "SM_" \o Pad6(meter_id),
                timestamp  |-> timestamp,
                load_kw    |-> MeterLoad(base_load, TsMonth(timestamp), Raw(42, p)),
                meter_type |-> meter_type,
                latitude   |-> 40713 + Normal(300, Raw(42, p + 1)),
                longitude  |-> (0 - 74006) + Normal(500, Raw(42, p + 2)),
                feeder_id  |-> FeederName(DeviceFeederDraw(Raw(42, p + 3)))],
       pos |-> p + 4]

RECURSIVE MeterSamples(_, _, _, _, _, _)
\* the inner loop from sample k on
MeterSamples(meter_id, meter_type, dates, k, pos, rows) ==
  IF k > Len(dates) THEN [rows |-> rows, pos |-> pos]
  ELSE LET s == MeterSample(meter_id, meter_type, dates[k], pos)
       IN  MeterSamples(meter_id, meter_type, dates, k + 1, s.pos,
                        Append(rows, s.row))

RECURSIVE MeterLoop(_, _, _, _)
\* the outer loop from meter_id on
MeterLoop(meter_id, dates, pos, rows) ==
  IF meter_id > NumMeters THEN rows
  ELSE LET meter_type == Choice(<<"Residential", "Commercial", "Industrial">>,
                                Raw(42, pos))
           r == MeterSamples(meter_id, meter_type, dates, 1, pos + 1, rows)
       IN  MeterLoop(meter_id + 1, dates, r.pos, r.rows)

generate_smart_meter_data(now) == MeterLoop(1, DateSamples(now, 24), 0, <<>>)

----------------------------------------------------------------------------
(* generate_ev_charger_data *)

\* the power rating of a charger type
MaxPower(charger_type) ==
  IF charger_type = "Level 2" THEN 7200
  ELSE IF charger_type = "DC Fast" THEN 50000
  ELSE 150000

\* usage_prob by location and time, in tenths
UsageProb(location_type, hour, day_of_week) ==
  IF location_type = "Residential"
  THEN (IF (18 <= hour /\ hour <= 23) \/ (6 <= hour /\ hour <= 8) THEN 8 ELSE 2)
  ELSE IF location_type = "Workplace"
  THEN (IF 8 <= hour /\ hour <= 17 /\ day_of_week < 5 THEN 7 ELSE 1)
  ELSE IF location_type = "Public"
  THEN (IF 9 <= hour /\ hour <= 21 THEN 4 ELSE 2)
  ELSE (IF 6 <= hour /\ hour <= 22 THEN 6 ELSE 3)

\* the session energy taken from the rating instead of the power drawn
ChargerSessionFromRating(is_charging, max_power, rawPower, rawEnergy) ==
  IF is_charging
  THEN [power_kw |-> (max_power * Uniform(300, 1000, rawPower)) \div Milli,
        session_energy |-> (max_power * Uniform(500, 4000, rawEnergy)) \div Milli]
  ELSE [power_kw |-> 0, session_energy |-> 0]

\* power_kw and session_energy of one sample
ChargerSession(is_charging, max_power, rawPower, rawEnergy) ==
  IF is_charging
  THEN LET power_kw == (max_power * Uniform(300, 1000, rawPower)) \div Milli
       IN  [power_kw |-> power_kw,
            session_energy |-> (power_kw * Uniform(500, 4000, rawEnergy)) \div Milli]
  ELSE [power_kw |-> 0, session_energy |-> 0]

ChargerSample(charger_id, charger_type, location_type, timestamp, pos) ==
  LET usage_prob == UsageProb(location_type, TsHour(timestamp), TsDayOfWeek(timestamp))
      is_charging == RandomBelow(usage_prob, Raw(43, pos))
      s == ChargerSession(is_charging, MaxPower(charger_type),
                          Raw(43, pos + 1), Raw(43, pos + 2))
      p == IF is_charging THEN pos + 3 ELSE pos + 1
  IN  [row |-> [charger_id         |-> "EV_" \o Pad6(charger_id),
                timestamp          |-> timestamp,
                power_kw           |-> s.power_kw,
                session_energy_kwh |-> s.session_energy,
                charger_type       |-> charger_type,
                location_type      |-> location_type,
                latitude           |-> 40713 + Normal(300, Raw(43, p)),
                longitude          |-> (0 - 74006) + Normal(500, Raw(43, p + 1)),
                feeder_id          |-> FeederName(DeviceFeederDraw(Raw(43, p + 2)))],
       pos |-> p + 3]

RECURSIVE ChargerSamples(_, _, _, _, _, _, _)
ChargerSamples(charger_id, charger_type, location_type, dates, k, pos, rows) ==
  IF k > Len(dates) THEN [rows |-> rows, pos |-> pos]
  ELSE LET s == ChargerSample(charger_id, charger_type, location_type, dates[k], pos)
       IN  ChargerSamples(charger_id, charger_type, location_type, dates, k + 1,
                          s.pos, Append(rows, s.row))

RECURSIVE ChargerLoop(_, _, _, _)
ChargerLoop(charger_id, dates, pos, rows) ==
  IF charger_id > NumChargers THEN rows
  ELSE LET charger_type == Choice(<<"Level 2", "DC Fast", "Tesla Supercharger">>,
                                  Raw(43, pos))
           location_type == Choice(<<"Residential", "Workplace", "Public", "Highway">>,
                                   Raw(43, pos + 1))
           r == ChargerSamples(charger_id, charger_type, location_type, dates, 1,
                               pos + 2, rows)
       IN  ChargerLoop(charger_id + 1, dates, r.pos, r.rows)

generate_ev_charger_data(now) == ChargerLoop(1, DateSamples(now, 24), 0, <<>>)

----------------------------------------------------------------------------
(* generate_solar_inverter_data *)

\* generation_kw of one sample: the daylight curve, the noise, the clamp
InverterGeneration(system_size_kw, hour, month, rawWeather, rawNoise) ==
  LET daylight == 6 <= hour /\ hour <= 18
      seasonal_factor == 700 + (600 * SinPi6(month - 6)) \div Milli
      weather_factor == Uniform(300, 1000, rawWeather)
      generation_kw ==
        IF daylight
        THEN (((((system_size_kw * HourFactor(hour)) \div Milli)
                  * seasonal_factor) \div Milli) * weather_factor) \div Milli
        ELSE 0
      noisy == (generation_kw * (Milli + Normal(50, rawNoise))) \div Milli
  IN  Max(0, noisy)

InverterSample(inverter_id, system_size_kw, installation_type, timestamp, pos) ==
  LET hour == TsHour(timestamp)
      daylight == 6 <= hour /\ hour <= 18
      p == IF daylight THEN pos + 1 ELSE pos
  IN  [row |-> [inverter_id       |-> "PV_" \o Pad6(inverter_id),
                timestamp         |-> timestamp,
                generation_kw     |-> InverterGeneration(system_size_kw, hour,
                                        TsMonth(timestamp), Raw(44, pos), Raw(44, p)),
                system_size_kw    |-> system_size_kw,
                installation_type |-> installation_type,
                latitude          |-> 40713 + Normal(300, Raw(44, p + 1)),
                longitude         |-> (0 - 74006) + Normal(500, Raw(44, p + 2)),
                feeder_id         |-> FeederName(DeviceFeederDraw(Raw(44, p + 3)))],
       pos |-> p + 4]

RECURSIVE InverterSamples(_, _, _, _, _, _, _)
InverterSamples(inverter_id, system_size_kw, installation_type, dates, k, pos, rows) ==
  IF k > Len(dates) THEN [rows |-> rows, pos |-> pos]
  ELSE LET s == InverterSample(inverter_id, system_size_kw, installation_type,
                               dates[k], pos)
       IN  InverterSamples(inverter_id, system_size_kw, installation_type, dates,
                           k + 1, s.pos, Append(rows, s.row))

RECURSIVE InverterLoop(_, _, _, _)
InverterLoop(inverter_id, dates, pos, rows) ==
  IF inverter_id > NumInverters THEN rows
  ELSE LET system_size_kw == Choice(<<5000, 7500, 10000, 15000, 20000, 50000, 100000>>,
                                    Raw(44, pos))
           installation_type == Choice(<<"Residential", "Commercial", "Utility">>,
                                       Raw(44, pos + 1))
           r == InverterSamples(inverter_id, system_size_kw, installation_type,
                                dates, 1, pos + 2, rows)
       IN  InverterLoop(inverter_id + 1, dates, r.pos, r.rows)

generate_solar_inverter_data(now) == InverterLoop(1, DateSamples(now, 6), 0, <<>>)

----------------------------------------------------------------------------
(* generate_feeder_data *)

\* the tiers with the boundaries on the wrong side
ConstraintRiskInclusive(current_load_pct) ==
  IF current_load_pct >= 85 * Milli THEN "High"
  ELSE IF current_load_pct >= 75 * Milli THEN "Medium"
  ELSE "Low"

\* 'High' if current_load_pct > 85 else 'Medium' if current_load_pct > 75 else 'Low'
ConstraintRisk(current_load_pct) ==
  IF current_load_pct > 85 * Milli THEN "High"
  ELSE IF current_load_pct > 75 * Milli THEN "Medium"
  ELSE "Low"

\* np.random.uniform(60, 95)
LoadDraw(raw) == Uniform(60 * Milli, 95 * Milli, raw)

\* np.random.uniform(5, 40)
SolarDraw(raw) == Uniform(5 * Milli, 40 * Milli, raw)

\* np.random.uniform(2, 15)
EvDraw(raw) == Uniform(2 * Milli, 15 * Milli, raw)

\* one pass of the loop: eight draws
FeederRow(feeder_id, pos) ==
  LET current_load_pct == LoadDraw(Raw(45, pos + 2))
  IN  [feeder_id             |-> FeederName(feeder_id),
       capacity_mva          |-> Choice(<<5, 10, 15, 20, 25>>, Raw(45, pos)),
       voltage_kv            |-> Choice(<<4160, 12470, 13800, 23000>>, Raw(45, pos + 1)),
       current_load_pct      |-> current_load_pct,
       solar_penetration_pct |-> SolarDraw(Raw(45, pos + 3)),
       ev_penetration_pct    |-> EvDraw(Raw(45, pos + 4)),
       constraint_risk       |-> ConstraintRisk(current_load_pct),
       upgrade_priority      |-> RandInt(1, 6, Raw(45, pos + 5)),
       latitude              |-> 40713 + Normal(200, Raw(45, pos + 6)),
       longitude             |-> (0 - 74006) + Normal(300, Raw(45, pos + 7))]

generate_feeder_data == [i \in 1..NumFeeders |-> FeederRow(i, 8 * (i - 1))]

----------------------------------------------------------------------------
(* generate_adoption_forecasts *)

BaseYear == 2024
\* range(2024, 2034): the table one year short
LastYearShort == 2034 - 1

LastYear == 2034

\* the chain with the rates of the first two branches exchanged
GrowthRatesSwapped(scenario) ==
  IF scenario = "Conservative" THEN [ev_growth |-> 25, solar_growth |-> 12]
  ELSE IF scenario = "Moderate" THEN [ev_growth |-> 15, solar_growth |-> 8]
  ELSE [ev_growth |-> 35, solar_growth |-> 18]

\* the if/elif chain: growth rates per year, in percent
GrowthRates(scenario) ==
  IF scenario = "Conservative" THEN [ev_growth |-> 15, solar_growth |-> 8]
  ELSE IF scenario = "Moderate" THEN [ev_growth |-> 25, solar_growth |-> 12]
  ELSE [ev_growth |-> 35, solar_growth |-> 18]

\* one unit of the five-decimal fixed point the power is computed in
PowScale == 10^5

RECURSIVE Compound(_, _)
\* (1 + growth) ** years_from_base, five decimals, rounded to nearest
Compound(growth, years_from_base) ==
  IF years_from_base = 0 THEN PowScale
  ELSE (Compound(growth, years_from_base - 1) * (100 + growth) + 50) \div 100

\* base * (1 + growth) ** years_from_base, four decimals
Penetration(base, growth, years_from_base) ==
  (base * Compound(growth, years_from_base) + 5) \div 10

\* the EV penetration left uncapped
CapEvNone(ev_penetration) == ev_penetration

\* min(ev_penetration, 85)
CapEv(ev_penetration) == Min(ev_penetration, 85 * PScale)

\* the solar penetration left uncapped
CapSolarNone(solar_penetration) == solar_penetration

\* min(solar_penetration, 60)
CapSolar(solar_penetration) == Min(solar_penetration, 60 * PScale)

ForecastRow(year, scenario) ==
  LET g == GrowthRates(scenario)
      years_from_base == year - 2024
      ev_penetration == CapEv(Penetration(8, g.ev_growth, years_from_base))
      solar_penetration == CapSolar(Penetration(15, g.solar_growth, years_from_base))
  IN  [year                  |-> year,
       scenario              |-> scenario,
       ev_penetration_pct    |-> ev_penetration,
       solar_penetration_pct |-> solar_penetration,
       total_der_mw          |-> ((ev_penetration * 72) \div 10 + solar_penetration * 5) * 50]

Scenarios == <<"Conservative", "Moderate", "Aggressive">>

\* year is the outer loop, scenario the inner one
generate_adoption_forecasts ==
  [i \in 1..((LastYear - BaseYear + 1) * Len(Scenarios)) |->
     ForecastRow(BaseYear + (i - 1) \div Len(Scenarios),
                 Scenarios[1 + ((i - 1) % Len(Scenarios))])]

----------------------------------------------------------------------------
(* The five cached generators of DERAnalytics *)

Funcs == <<"generate_smart_meter_data", "generate_ev_charger_data",
           "generate_solar_inverter_data", "generate_feeder_data",
           "generate_adoption_forecasts">>

\* __init__: the field each generator's result is assigned to
Fields == <<"smart_meter_data", "ev_charger_data", "solar_inverter_data",
            "feeder_data", "adoption_forecasts">>

\* the body of generator number n, run when datetime.now() returns now
Body(n, now) ==
  CASE n = 1 -> generate_smart_meter_data(now)
    [] n = 2 -> generate_ev_charger_data(now)
    [] n = 3 -> generate_solar_inverter_data(now)
    [] n = 4 -> generate_feeder_data
    [] n = 5 -> generate_adoption_forecasts

\* a frame that has not been produced
NoFrame == <<>>

\* the rows a frame holds
Rows(frame) == {frame[i] : i \in DOMAIN frame}

NoTrial == [fn |-> None, runs |-> 0, first |-> NoFrame, second |-> NoFrame, now |-> 0]

NoWidgets == [forecast_scenario |-> None, time_horizon |-> 0, constraint_threshold |-> 0]

\* index=1 of the selectbox, value=5 and value=85 of the sliders
WidgetDefaults == [forecast_scenario |-> "Moderate", time_horizon |-> 5,
                   constraint_threshold |-> 85]

\* nothing rendered: each part of the page is <<>> until the script renders it
\* errors: the parts of the script whose st.error message is on the page
NoUi == [metrics |-> <<>>, tab1 |-> <<>>, tab2 |-> <<>>, tab3 |-> <<>>,
         tab4 |-> <<>>, footer |-> FALSE, errors |-> {}]

\* the state of a server process in which no script has run
Fresh ==
  /\ pc = "idle"
  /\ reruns = 0
  /\ cache = [n \in 1..5 |-> [hit |-> FALSE, value |-> NoFrame]]
  /\ bodyRuns = [n \in 1..5 |-> 0]
  /\ heap = [f \in Rows(Fields) |-> NoFrame]
  /\ session = WidgetDefaults
  /\ widgets = NoWidgets
  /\ ui = NoUi

----------------------------------------------------------------------------
(* Generator harness: one generator is run twice, each time in a fresh     *)
(* process (empty cache), at two clock values that need not be equal.      *)

InitGen ==
  /\ mt \in Gens
  /\ trial = NoTrial
  /\ Fresh

\* the harness after one more uncached call of generator n at clock now
TrialAfter(n, now) ==
  IF trial.runs = 0
  THEN [fn |-> Funcs[n], runs |-> 1, first |-> Body(n, now), second |-> NoFrame,
        now |-> now]
  ELSE [trial EXCEPT !.runs = 2, !.second = Body(n, now), !.now = now]

CallGenerateSmartMeterData ==
  /\ trial.fn \in {None, Funcs[1]}
  /\ trial.runs < 2
  /\ \E now \in Nows : trial' = TrialAfter(1, now)
  /\ UNCHANGED <<mt, pc, reruns, cache, bodyRuns, heap, session, widgets, ui>>

CallGenerateEvChargerData ==
  /\ trial.fn \in {None, Funcs[2]}
  /\ trial.runs < 2
  /\ \E now \in Nows : trial' = TrialAfter(2, now)
  /\ UNCHANGED <<mt, pc, reruns, cache, bodyRuns, heap, session, widgets, ui>>

CallGenerateSolarInverterData ==
  /\ trial.fn \in {None, Funcs[3]}
  /\ trial.runs < 2
  /\ \E now \in Nows : trial' = TrialAfter(3, now)
  /\ UNCHANGED <<mt, pc, reruns, cache, bodyRuns, heap, session, widgets, ui>>

CallGenerateFeederData ==
  /\ trial.fn \in {None, Funcs[4]}
  /\ trial.runs < 2
  /\ \E now \in Nows : trial' = TrialAfter(4, now)
  /\ UNCHANGED <<mt, pc, reruns, cache, bodyRuns, heap, session, widgets, ui>>

CallGenerateAdoptionForecasts ==
  /\ trial.fn \in {None, Funcs[5]}
  /\ trial.runs < 2
  /\ \E now \in Nows : trial' = TrialAfter(5, now)
  /\ UNCHANGED <<mt, pc, reruns, cache, bodyRuns, heap, session, widgets, ui>>

\* the names the scenario branching can be entered with: those of the
\* scenarios list and one that is none of them
ScenarioInputs == Rows(Scenarios) \cup {"Extreme"}

\* the body of the scenario loop (lines 374-397) run once for a year of the
\* years list and a scenario name
RunForecastLoopBody ==
  /\ trial.fn = None
  /\ \E year \in BaseYear..LastYear : \E scenario \in ScenarioInputs :
       trial' = [fn |-> "ForecastRow", runs |-> 1,
                 first |-> <<ForecastRow(year, scenario)>>, second |-> NoFrame,
                 now |-> 0]
  /\ UNCHANGED <<mt, pc, reruns, cache, bodyRuns, heap, session, widgets, ui>>

NextGen ==
  \/ CallGenerateSmartMeterData
  \/ CallGenerateEvChargerData
  \/ CallGenerateSolarInverterData
  \/ CallGenerateFeederData
  \/ CallGenerateAdoptionForecasts
  \/ RunForecastLoopBody

SpecGen == InitGen /\ [][NextGen]_vars

\* the rows of generator n the harness has produced
TrialRows(n) ==
  IF trial.fn # Funcs[n] THEN {} ELSE Rows(trial.first) \cup Rows(trial.second)

----------------------------------------------------------------------------
(* pandas: a frame is a sequence of rows, a row a record of its columns.   *)
(* The script's frames live in a store h that maps a name to a frame: the  *)
(* five fields of the DERAnalytics object and the script's local frames.   *)

\* a missing value
NaN == 0 - 2^30

\* the missing value left in place
FillNaNone(v) == v

\* fillna(0)
FillNa(v) == IF v = NaN THEN 0 ELSE v

RECURSIVE SumOf(_, _)
\* the sum of column col
SumOf(frame, col) ==
  IF frame = <<>> THEN 0 ELSE frame[1][col] + SumOf(Tail(frame), col)

\* the frame that aliases its source: no new object
DfAlias(h, src, dst) == [h |-> h, ref |-> src]

\* df.copy(): a new object named dst with the rows of src; ref names the
\* object the local variable is bound to
DfCopy(h, src, dst) == [h |-> (dst :> h[src]) @@ h, ref |-> dst]

\* df[col] = values, in place: the object ref names is changed
WithColumnValues(h, ref, col, values) ==
  [h EXCEPT ![ref] = [i \in DOMAIN @ |-> (col :> values[i]) @@ @[i]]]

RECURSIVE Distinct(_, _)
\* the values of a sequence without repetition, in order of first appearance
Distinct(seq, seen) ==
  IF seq = <<>> THEN <<>>
  ELSE IF seq[1] \in seen THEN Distinct(Tail(seq), seen)
  ELSE <<seq[1]>> \o Distinct(Tail(seq), seen \cup {seq[1]})

\* df.groupby(key)[col].sum().reset_index(): one row per key (pandas sorts
\* the keys; the order of the groups is immaterial to a merge)
GroupBySum(frame, key, col) ==
  LET keys == Distinct([i \in DOMAIN frame |-> frame[i][key]], {})
  IN  [g \in DOMAIN keys |->
         (key :> keys[g]) @@
         (col :> SumOf(SelectSeq(frame, LAMBDA r : r[key] = keys[g]), col))]

RECURSIVE MergeLeft(_, _, _, _)
\* left.merge(right, on=key, how='left'): every left row, once per matching
\* right row, or once with col missing when no right row matches
MergeLeft(left, right, key, col) ==
  IF left = <<>> THEN <<>>
  ELSE LET matches == SelectSeq(right, LAMBDA r : r[key] = left[1][key])
           joined == IF matches = <<>> THEN <<(col :> NaN) @@ left[1]>>
                     ELSE [j \in DOMAIN matches |-> (col :> matches[j][col]) @@ left[1]]
       IN  joined \o MergeLeft(Tail(left), right, key, col)

RECURSIVE InsertDesc(_, _, _)
InsertDesc(sorted, row, col) ==
  IF sorted = <<>> THEN <<row>>
  ELSE IF row[col] > sorted[1][col] THEN <<row>> \o sorted
  ELSE <<sorted[1]>> \o InsertDesc(Tail(sorted), row, col)

RECURSIVE SortDesc(_, _)
\* df.sort_values(col, ascending=False): a new frame
SortDesc(frame, col) ==
  IF frame = <<>> THEN <<>>
  ELSE InsertDesc(SortDesc(SubSeq(frame, 1, Len(frame) - 1), col),
                  frame[Len(frame)], col)

\* the names of the five fields
FieldNames == Rows(Fields)

\* the frames of the object, the script's locals dropped at the end of a step
Object(h) == [f \in FieldNames |-> h[f]]

----------------------------------------------------------------------------
(* st.cache_data: the cache outlives the script run.  The key of an entry  *)
(* is the function (its one argument, _self, is not hashed), and nothing   *)
(* in the script clears or expires an entry.                               *)

\* a lookup that never finds the entry
CacheMiss(n) == FALSE

\* the entry of generator n is in the cache
CacheHit(n) == cache[n].hit

\* the value a call of generator n returns when datetime.now() is now
CachedValue(n, now) == IF CacheHit(n) THEN cache[n].value ELSE Body(n, now)

\* the clock values a script run sees
SessionNows == {1786, 4844}

\* the streams a session is explored with
SessionGens == {g \in Gens : g.b = 1}

\* DERAnalytics.__init__: self.<field n> = self.<generator n>(), each call
\* through the cache; now is the clock value the bodies that run read
Construct(now) ==
  /\ heap' = [f \in FieldNames |->
                CachedValue(CHOOSE n \in 1..5 : Fields[n] = f, now)]
  /\ cache' = [n \in 1..5 |-> [hit |-> TRUE, value |-> CachedValue(n, now)]]
  /\ bodyRuns' = [n \in 1..5 |-> IF CacheHit(n) THEN bodyRuns[n] ELSE bodyRuns[n] + 1]

----------------------------------------------------------------------------
(* der_clustering_analysis *)

\* the cluster_names dictionary; a key it lacks maps to a missing value
ClusterName(cluster) ==
  CASE cluster = 0 -> "High DER Density"
    [] cluster = 1 -> "Moderate Load Growth"
    [] cluster = 2 -> "Constrained Capacity"
    [] cluster = 3 -> "Low DER Adoption"
    [] OTHER -> "NaN"

\* KMeans(n_clusters=4, random_state=42).fit_predict(X_scaled): one label in
\* 0..3 per row of X.  The clustering is the library's; k selects one of the
\* labellings it may return.
fit_predict(X, k) == [i \in DOMAIN X |-> (k + i) % 4]

\* the store after the method has run; ref names the frame it returns
der_clustering_analysis(h, k) ==
  LET c == DfCopy(h, "feeder_data", "feeder_metrics")
      ev_density == GroupBySum(c.h["ev_charger_data"], "feeder_id", "power_kw")
      solar_density == GroupBySum(c.h["solar_inverter_data"], "feeder_id",
                                  "generation_kw")
      merged == MergeLeft(MergeLeft(c.h[c.ref], ev_density, "feeder_id", "power_kw"),
                          solar_density, "feeder_id", "generation_kw")
      \* each merge returns a new frame, to which feeder_metrics is rebound
      h1 == ("merged" :> merged) @@ c.h
      h2 == WithColumnValues(h1, "merged", "power_kw",
              [i \in DOMAIN merged |-> FillNa(h1["merged"][i].power_kw)])
      h3 == WithColumnValues(h2, "merged", "generation_kw",
              [i \in DOMAIN merged |-> FillNa(h2["merged"][i].generation_kw)])
      X == [i \in DOMAIN h3["merged"] |->
              [f \in {"current_load_pct", "solar_penetration_pct", "ev_penetration_pct",
                      "power_kw", "generation_kw", "capacity_mva"} |->
                 FillNa(h3["merged"][i][f])]]
      h4 == WithColumnValues(h3, "merged", "cluster", fit_predict(X, k))
      h5 == WithColumnValues(h4, "merged", "cluster_name",
              [i \in DOMAIN merged |-> ClusterName(h4["merged"][i].cluster)])
  IN  [h |-> h5, ref |-> "merged"]

----------------------------------------------------------------------------
(* main: one script run.  Charts are drawn from the frames named below and *)
(* leave no trace in the script's state; ui records the numbers and tables *)
(* the script renders.                                                     *)

Init ==
  /\ mt \in SessionGens
  /\ trial = NoTrial
  /\ Fresh

\* the widget states the user can reach with one interaction
OneChange(w) ==
  {[w EXCEPT !.forecast_scenario = sc] : sc \in Rows(Scenarios)}
    \cup {[w EXCEPT !.time_horizon = th] : th \in 1..10}
    \cup {[w EXCEPT !.constraint_threshold = ct] : ct \in 70..95}

\* the script starts over, the first time when the page is opened and then
\* whenever the user changes a widget (or asks for a rerun): the page is
\* cleared, header and banner are drawn
StartRerun ==
  /\ pc \in {"idle", "stopped"}
  /\ reruns < MaxReruns
  /\ reruns' = reruns + 1
  \* a page that st.stop() cut short has no widget to change: the rerun is
  \* the user's 'Rerun'
  /\ session' \in (IF reruns = 0 \/ pc = "stopped" THEN {session}
                   ELSE OneChange(session))
  /\ pc' = "construct"
  /\ heap' = [f \in FieldNames |-> NoFrame]
  /\ widgets' = NoWidgets
  /\ ui' = NoUi
  /\ UNCHANGED <<mt, trial, cache, bodyRuns>>

\* der_analytics = DERAnalytics()
InitAnalytics ==
  /\ pc = "construct"
  /\ \E now \in (IF \A n \in 1..5 : CacheHit(n) THEN {0} ELSE SessionNows) :
       Construct(now)
  /\ pc' = "sidebar"
  /\ UNCHANGED <<mt, trial, reruns, session, widgets, ui>>

\* the selectbox and the two sliders return what the user has set
Sidebar ==
  /\ pc = "sidebar"
  /\ widgets' = session
  /\ pc' = "metrics"
  /\ UNCHANGED <<mt, trial, reruns, cache, bodyRuns, heap, session, ui>>

\* the mask of the 'Constrained Feeders' card, with the boundary included
AboveOrAtThreshold(row, constraint_threshold) ==
  row.current_load_pct >= constraint_threshold * Milli

\* feeder_data['current_load_pct'] > constraint_threshold
AboveThreshold(row, constraint_threshold) ==
  row.current_load_pct > constraint_threshold * Milli

\* the four metric cards
Metrics ==
  /\ pc = "metrics"
  /\ ui' = [ui EXCEPT !.metrics =
       <<[total_ev_chargers   |-> Cardinality({r.charger_id : r \in Rows(heap["ev_charger_data"])}),
          total_solar_systems |-> Cardinality({r.inverter_id : r \in Rows(heap["solar_inverter_data"])}),
          total_capacity      |-> SumOf(heap["feeder_data"], "capacity_mva"),
          constrained_feeders |->
            Len(SelectSeq(heap["feeder_data"],
                       LAMBDA r : AboveThreshold(r, widgets.constraint_threshold))),
          above_loading       |-> widgets.constraint_threshold]>>]
  /\ pc' = "tab1"
  /\ UNCHANGED <<mt, trial, reruns, cache, bodyRuns, heap, session, widgets>>

\* DER Hotspot Analysis
Tab1 ==
  /\ pc = "tab1"
  /\ \E k \in 0..3 :
       LET r == der_clustering_analysis(heap, k)
       IN  /\ ui' = [ui EXCEPT !.tab1 = <<r.h[r.ref]>>]
           /\ heap' = Object(r.h)
  /\ pc' = "tab2"
  /\ UNCHANGED <<mt, trial, reruns, cache, bodyRuns, session, widgets>>

\* scenario_data filtered to the year 2024 + time_horizon
FutureData(adoption_forecasts, forecast_scenario, time_horizon) ==
  LET scenario_data == SelectSeq(adoption_forecasts,
                                 LAMBDA r : r.scenario = forecast_scenario)
      future_year == 2024 + time_horizon
  IN  SelectSeq(scenario_data, LAMBDA r : r.year = future_year)

\* Adoption Forecasts
Tab2 ==
  /\ pc = "tab2"
  /\ LET future_data == FutureData(heap["adoption_forecasts"],
                                   widgets.forecast_scenario, widgets.time_horizon)
     IN  ui' = [ui EXCEPT !.tab2 =
           IF future_data # <<>>
           THEN <<[scenario        |-> widgets.forecast_scenario,
                   future_ev       |-> future_data[1].ev_penetration_pct,
                   future_solar    |-> future_data[1].solar_penetration_pct,
                   future_total_mw |-> future_data[1].total_der_mw,
                   ev_delta        |-> future_data[1].ev_penetration_pct - 8 * PScale,
                   solar_delta     |-> future_data[1].solar_penetration_pct - 15 * PScale,
                   total_delta     |-> future_data[1].total_der_mw - 1150 * PScale]>>
           ELSE <<[scenario |-> widgets.forecast_scenario]>>]
  /\ pc' = "tab3"
  /\ UNCHANGED <<mt, trial, reruns, cache, bodyRuns, heap, session, widgets>>

\* Load Impact Analysis
Tab3 ==
  /\ pc = "tab3"
  /\ LET e == DfCopy(heap, "ev_charger_data", "ev_hourly")
         h1 == WithColumnValues(e.h, e.ref, "hour",
                 [i \in DOMAIN e.h[e.ref] |-> TsHour(e.h[e.ref][i].timestamp)])
         s == DfCopy(h1, "solar_inverter_data", "solar_hourly")
         h2 == WithColumnValues(s.h, s.ref, "hour",
                 [i \in DOMAIN s.h[s.ref] |-> TsHour(s.h[s.ref][i].timestamp)])
         ev_total == GroupBySum(h2[e.ref], "hour", "power_kw")
         solar_total == GroupBySum(h2[s.ref], "hour", "generation_kw")
         common_hours == {r.hour : r \in Rows(ev_total)}
                           \cap {r.hour : r \in Rows(solar_total)}
         net_impact ==
           [hr \in common_hours |->
              SumOf(SelectSeq(ev_total, LAMBDA r : r.hour = hr), "power_kw")
                - SumOf(SelectSeq(solar_total, LAMBDA r : r.hour = hr), "generation_kw")]
     IN  /\ ui' = [ui EXCEPT !.tab3 = <<net_impact>>]
         /\ heap' = Object(h2)
  /\ pc' = "tab4"
  /\ UNCHANGED <<mt, trial, reruns, cache, bodyRuns, session, widgets>>

\* Constraint Planning
Tab4 ==
  /\ pc = "tab4"
  /\ LET c == DfCopy(heap, "feeder_data", "constraint_risk")
         constraint_risk == c.h[c.ref]
         high_priority ==
           SortDesc(SelectSeq(constraint_risk,
                           LAMBDA r : \/ AboveThreshold(r, widgets.constraint_threshold)
                                      \/ r.constraint_risk = "High"),
                    "current_load_pct")
         immediate_upgrades == Len(high_priority)
     IN  /\ ui' = [ui EXCEPT !.tab4 =
               <<[priority_display   |-> [i \in DOMAIN high_priority |->
                                            high_priority[i].feeder_id],
                  none_exceed        |-> high_priority = <<>>,
                  immediate_upgrades |-> immediate_upgrades,
                  \* immediate_upgrades * 2.5, in tenths of a million
                  total_upgrade_cost |-> immediate_upgrades * 25,
                  capacity_added     |-> immediate_upgrades * 5]>>]
         /\ heap' = Object(c.h)
  /\ pc' = "footer"
  /\ UNCHANGED <<mt, trial, reruns, cache, bodyRuns, session, widgets>>

Footer ==
  /\ pc = "footer"
  /\ ui' = [ui EXCEPT !.footer = TRUE]
  /\ pc' = "idle"
  /\ UNCHANGED <<mt, trial, reruns, cache, bodyRuns, heap, session, widgets>>

Next ==
  \/ StartRerun
  \/ InitAnalytics
  \/ Sidebar
  \/ Metrics
  \/ Tab1
  \/ Tab2
  \/ Tab3
  \/ Tab4
  \/ Footer

Spec == Init /\ [][Next]_vars

----------------------------------------------------------------------------
(* main when a call raises.  The generators and the tabs call into numpy,  *)
(* pandas, scikit-learn and plotly; the script guards the construction and *)
(* each tab with try/except Exception.  Which call raises is the           *)
(* environment's choice.  A tab that raises leaves on the page what it had *)
(* drawn so far; ui records a tab's numbers only when the tab completes.   *)

\* the exception leaves the tab unhandled and ends the script run
AfterTabErrorUncaught(tab) == "idle"

\* where the script goes on after the except clause of a tab
AfterTabError(tab) ==
  CASE tab = "tab1" -> "tab2"
    [] tab = "tab2" -> "tab3"
    [] tab = "tab3" -> "tab4"
    [] tab = "tab4" -> "footer"

\* DERAnalytics() raises in the body of generator n: the generators before
\* it have returned (and are cached), no object is bound to der_analytics;
\* st.error, then st.stop() ends the script run
InitAnalyticsRaises ==
  /\ pc = "construct"
  /\ \E n \in 1..5 : \E now \in SessionNows :
       /\ ~CacheHit(n)
       /\ cache' = [m \in 1..5 |->
                      IF m < n THEN [hit |-> TRUE, value |-> CachedValue(m, now)]
                      ELSE cache[m]]
       /\ bodyRuns' = [m \in 1..5 |->
                         IF m <= n /\ ~CacheHit(m) THEN bodyRuns[m] + 1
                         ELSE bodyRuns[m]]
  /\ ui' = [ui EXCEPT !.errors = @ \cup {"init"}]
  /\ pc' = "stopped"
  /\ UNCHANGED <<mt, trial, reruns, heap, session, widgets>>

\* the page after st.error has reported the tab: the frames the tab had
\* derived were copies and are dropped with its locals
ReportTabError(tab) == [ui EXCEPT !.errors = @ \cup {tab}]

\* a call inside the try block of tab 1 raises
Tab1Raises ==
  /\ pc = "tab1"
  /\ ui' = ReportTabError("tab1")
  /\ pc' = AfterTabError("tab1")
  /\ UNCHANGED <<mt, trial, reruns, cache, bodyRuns, heap, session, widgets>>

\* a call inside the try block of tab 2 raises
Tab2Raises ==
  /\ pc = "tab2"
  /\ ui' = ReportTabError("tab2")
  /\ pc' = AfterTabError("tab2")
  /\ UNCHANGED <<mt, trial, reruns, cache, bodyRuns, heap, session, widgets>>

\* a call inside the try block of tab 3 raises
Tab3Raises ==
  /\ pc = "tab3"
  /\ ui' = ReportTabError("tab3")
  /\ pc' = AfterTabError("tab3")
  /\ UNCHANGED <<mt, trial, reruns, cache, bodyRuns, heap, session, widgets>>

\* a call inside the try block of tab 4 raises
Tab4Raises ==
  /\ pc = "tab4"
  /\ ui' = ReportTabError("tab4")
  /\ pc' = AfterTabError("tab4")
  /\ UNCHANGED <<mt, trial, reruns, cache, bodyRuns, heap, session, widgets>>

NextFaults ==
  \/ Next
  \/ InitAnalyticsRaises
  \/ Tab1Raises
  \/ Tab2Raises
  \/ Tab3Raises
  \/ Tab4Raises

\* the streams failure handling is explored with: which call raises does
\* not depend on the data drawn
FaultGens == {g \in SessionGens : g.a = 0}

InitFaults ==
  /\ mt \in FaultGens
  /\ trial = NoTrial
  /\ Fresh

SpecFaults == InitFaults /\ [][NextFaults]_vars

\* DERAnalytics() has returned: the script is past line 460
Constructed ==
  pc \in {"sidebar", "metrics", "tab1", "tab2", "tab3", "tab4", "footer"}
    \/ (pc = "idle" /\ reruns > 0)

----------------------------------------------------------------------------
(* Claims about the generators, checked under SpecGen *)

\* C1: for every feeder record produced by generate_feeder_data,
\* constraint_risk is 'High' iff current_load_pct > 85, 'Medium' iff
\* 75 < current_load_pct <= 85, and 'Low' otherwise, the boundary values 75
\* and 85 included.
C1_RiskTier ==
  \A r \in TrialRows(4) :
    /\ r.constraint_risk \in {"High", "Medium", "Low"}
    /\ r.constraint_risk = "High" <=> r.current_load_pct > 85 * Milli
    /\ r.constraint_risk = "Medium" <=>
         (75 * Milli < r.current_load_pct /\ r.current_load_pct <= 85 * Milli)
    /\ r.constraint_risk = "Low" <=> r.current_load_pct <= 75 * Milli

\* feeders loaded at exactly 85 and at exactly 75 have been generated
C1_Witness ==
  /\ \E r \in TrialRows(4) : r.current_load_pct = 85 * Milli
  /\ \E r \in TrialRows(4) : r.current_load_pct = 75 * Milli

\* C2: for every forecast row (every year 2024..2034, every scenario),
\* ev_penetration_pct <= 85 and solar_penetration_pct <= 60.
C2_ForecastCaps ==
  \A r \in TrialRows(5) :
    /\ r.ev_penetration_pct <= 85 * PScale
    /\ r.solar_penetration_pct <= 60 * PScale

\* the forecast holds a row whose uncapped values exceed both caps
C2_Witness ==
  \E r \in TrialRows(5) :
    /\ Penetration(8, GrowthRates(r.scenario).ev_growth, r.year - BaseYear)
         > 85 * PScale
    /\ Penetration(15, GrowthRates(r.scenario).solar_growth, r.year - BaseYear)
         > 60 * PScale
    /\ Cardinality(TrialRows(5)) = 33

\* C3: every generated power or energy value is >= 0: load_kw of every meter
\* record, power_kw and session_energy_kwh of every charger record and
\* generation_kw of every inverter record, whatever the noise draws.
C3_NonNegative ==
  /\ \A r \in TrialRows(1) : r.load_kw >= 0
  /\ \A r \in TrialRows(2) : r.power_kw >= 0 /\ r.session_energy_kwh >= 0
  /\ \A r \in TrialRows(3) : r.generation_kw >= 0

\* a meter record whose noise factor 1 + normal(0, 0.1) was negative: raw 0
\* is the lowest draw, and the load of a residential meter is positive
\* before the noise is applied
C3_Witness ==
  \E r \in TrialRows(1) :
    /\ r.meter_type = "Residential"
    /\ r.load_kw = 0
    /\ Milli + Normal(100, 0) < 0

\* C4: for all fixed seeds, repeated generation produces identical output:
\* two runs of a generator with the same seed yield identical record
\* collections, whatever the time at which each run happens.
C4_Deterministic == trial.runs = 2 => trial.first = trial.second

\* the closed form of the forecast, four decimals: 8 * (1 + g_ev)^n and
\* 15 * (1 + g_solar)^n capped at 85 and 60, n = 0..10
ClosedFormEv ==
  [Conservative |-> <<80000, 92000, 105800, 121670, 139920, 160909, 185045,
                      212802, 244722, 281430, 323645>>,
   Moderate     |-> <<80000, 100000, 125000, 156250, 195312, 244141, 305176,
                      381470, 476837, 596046, 745058>>,
   Aggressive   |-> <<80000, 108000, 145800, 196830, 265721, 358723, 484276,
                      653772, 850000, 850000, 850000>>]

ClosedFormSolar ==
  [Conservative |-> <<150000, 162000, 174960, 188957, 204073, 220399, 238031,
                      257074, 277640, 299851, 323839>>,
   Moderate     |-> <<150000, 168000, 188160, 210739, 236028, 264351, 296073,
                      331602, 371394, 415962, 465877>>,
   Aggressive   |-> <<150000, 177000, 208860, 246455, 290817, 343164, 404933,
                      477821, 563829, 600000, 600000>>]

\* |x - y| is within the rounding of the fixed-point arithmetic
Close(x, y) == x - y <= 5 /\ y - x <= 5

\* C6: for every scenario and every year y in 2024..2034 the forecast row
\* has ev_penetration_pct = min(8 * (1 + g_ev)^(y - 2024), 85) and
\* solar_penetration_pct = min(15 * (1 + g_solar)^(y - 2024), 60) with
\* (g_ev, g_solar) = (0.15, 0.08), (0.25, 0.12), (0.35, 0.18) for
\* Conservative, Moderate, Aggressive; Conservative at 2029 gives 8 * 1.15^5.
C6_ClosedForm ==
  trial.fn = Funcs[5] =>
    /\ \A y \in 2024..2034 : \A sc \in {"Conservative", "Moderate", "Aggressive"} :
         \E r \in TrialRows(5) : r.year = y /\ r.scenario = sc
    /\ \A r \in TrialRows(5) :
         /\ r.year \in 2024..2034
         /\ r.scenario \in {"Conservative", "Moderate", "Aggressive"}
         /\ Close(r.ev_penetration_pct, ClosedFormEv[r.scenario][r.year - 2023])
         /\ Close(r.solar_penetration_pct, ClosedFormSolar[r.scenario][r.year - 2023])

\* the Conservative row of 2029 is there, with 8 * 1.15^5 = 16.0909
C6_Witness ==
  \E r \in TrialRows(5) :
    /\ r.year = 2029
    /\ r.scenario = "Conservative"
    /\ Close(r.ev_penetration_pct, 160909)

\* C8: every penetration and utilization fraction lies in [0, 100]:
\* current_load_pct, solar_penetration_pct and ev_penetration_pct of every
\* feeder record, ev_penetration_pct and solar_penetration_pct of every
\* forecast row.
C8_Fractions ==
  /\ \A r \in TrialRows(4) :
       /\ 0 <= r.current_load_pct /\ r.current_load_pct <= 100 * Milli
       /\ 0 <= r.solar_penetration_pct /\ r.solar_penetration_pct <= 100 * Milli
       /\ 0 <= r.ev_penetration_pct /\ r.ev_penetration_pct <= 100 * Milli
  /\ \A r \in TrialRows(5) :
       /\ 0 <= r.ev_penetration_pct /\ r.ev_penetration_pct <= 100 * PScale
       /\ 0 <= r.solar_penetration_pct /\ r.solar_penetration_pct <= 100 * PScale

\* the forecast holds a row whose EV penetration would have passed 100
\* without the cap
C8_Witness ==
  \E r \in TrialRows(5) :
    Penetration(8, GrowthRates(r.scenario).ev_growth, r.year - BaseYear) > 100 * PScale

\* the forecast rows the scenario loop body has produced
LoopBodyRows == IF trial.fn = "ForecastRow" THEN Rows(trial.first) ELSE {}

Rating(charger_type) ==
  CASE charger_type = "Level 2" -> 7200
    [] charger_type = "DC Fast" -> 50000
    [] charger_type = "Tesla Supercharger" -> 150000

\* C17: for every charger record power_kw never exceeds the rating of its
\* charger type (7.2 for Level 2, 50 for DC Fast, 150 for Tesla
\* Supercharger); when the charger is charging, power_kw is between 0.3 and
\* 1.0 times the rating and session_energy_kwh between 0.5 and 4.0 times
\* power_kw; when it is not charging both are 0, so session_energy_kwh > 0
\* if and only if power_kw > 0.  (A charging record is one with power_kw > 0:
\* 0.3 times a rating is positive.  Bounds are taken at the resolution of
\* the fixed point.)
C17_ChargerSession ==
  \A r \in TrialRows(2) :
    /\ r.charger_type \in {"Level 2", "DC Fast", "Tesla Supercharger"}
    /\ r.power_kw <= Rating(r.charger_type)
    /\ \/ r.power_kw = 0 /\ r.session_energy_kwh = 0
       \/ /\ 3 * Rating(r.charger_type) <= 10 * r.power_kw
          /\ r.power_kw <= Rating(r.charger_type)
          /\ (5 * r.power_kw) \div 10 <= r.session_energy_kwh
          /\ r.session_energy_kwh <= 4 * r.power_kw
    /\ r.session_energy_kwh > 0 <=> r.power_kw > 0

\* the charger generator has produced an idle record, a record charging at
\* the lowest power factor 0.3 and a record of a charger rated above 7.2
C17_Witness ==
  /\ \E r \in TrialRows(2) : r.power_kw = 0 /\ r.session_energy_kwh = 0
  /\ \E r \in TrialRows(2) :
       /\ 10 * r.power_kw = 3 * Rating(r.charger_type)
       /\ r.session_energy_kwh > 2 * r.power_kw
  /\ \E r \in TrialRows(2) : r.charger_type # "Level 2" /\ r.power_kw > 0

----------------------------------------------------------------------------
(* Claims about the session, checked under Spec *)

\* the rows of field f of the DERAnalytics object
FieldRows(f) == Rows(heap[f])

\* C5: for every constraint threshold selectable in main (70..95), the
\* number rendered as 'Constrained Feeders' equals the number of feeder
\* records whose current_load_pct is strictly greater than the threshold; a
\* feeder whose load equals the threshold is not counted.
C5_ConstrainedCount ==
  ui.metrics # <<>> =>
    /\ ui.metrics[1].above_loading = session.constraint_threshold
    /\ ui.metrics[1].above_loading \in 70..95
    /\ ui.metrics[1].constrained_feeders =
         Cardinality({i \in DOMAIN heap["feeder_data"] :
                        heap["feeder_data"][i].current_load_pct
                          > ui.metrics[1].above_loading * Milli})

\* the card is rendered for a threshold other than the default while one
\* feeder is loaded at exactly the threshold and another above it
C5_Witness ==
  /\ ui.metrics # <<>>
  /\ ui.metrics[1].above_loading = 80
  /\ \E r \in FieldRows("feeder_data") : r.current_load_pct = 80 * Milli
  /\ ui.metrics[1].constrained_feeders >= 1
  /\ ui.metrics[1].constrained_feeders < Len(heap["feeder_data"])

\* C7: every meter, charger and inverter record carries exactly one
\* feeder_id, and that id is always one of FEEDER_1..FEEDER_50 (here
\* FEEDER_1..FEEDER_NumFeeders), the id of a feeder record that
\* generate_feeder_data produces; none references FEEDER_0 or FEEDER_51.
C7_FeederReference ==
  Constructed =>
    /\ {r.feeder_id : r \in FieldRows("feeder_data")}
         = {FeederName(i) : i \in 1..NumFeeders}
    /\ \A f \in {"smart_meter_data", "ev_charger_data", "solar_inverter_data"} :
         \A r \in FieldRows(f) :
           /\ "feeder_id" \in DOMAIN r
           /\ r.feeder_id \in {x.feeder_id : x \in FieldRows("feeder_data")}
           /\ r.feeder_id \notin {FeederName(0), FeederName(NumFeeders + 1)}

\* the object holds device records that reference the first and the last
\* feeder of the pool
C7_Witness ==
  /\ Constructed
  /\ \E r \in FieldRows("smart_meter_data") : r.feeder_id = FeederName(1)
  /\ \E r \in FieldRows("ev_charger_data") : r.feeder_id = FeederName(NumFeeders)
  /\ \E r \in FieldRows("solar_inverter_data") : r.feeder_id = FeederName(NumFeeders)

\* C9: generation runs once per session: over any sequence of script reruns
\* (each constructing a new DERAnalytics) the body of each of the five
\* cached generate_* methods executes at most once, and every later
\* construction reuses the result of the first, so that the collections seen
\* by all reruns are equal.
C9_GenerateOnce ==
  [][\A n \in 1..5 :
       /\ bodyRuns'[n] <= 1
       /\ cache[n].hit => cache'[n] = cache[n]
       /\ Constructed' => (cache'[n].hit /\ heap'[Fields[n]] = cache'[n].value)]_vars

\* a second script run has constructed its DERAnalytics and no body has run
\* twice
C9_Witness ==
  /\ reruns = 2
  /\ pc = "sidebar"
  /\ \A n \in 1..5 : bodyRuns[n] = 1 /\ heap[Fields[n]] # NoFrame

\* C10: records are immutable once generated: after DERAnalytics is
\* constructed no operation of der_clustering_analysis or of main adds,
\* removes or changes a row or column of the five collections; derived
\* columns (cluster, cluster_name, hour, merged densities) are written only
\* to copies.
C10_Immutable ==
  [][(Constructed /\ Constructed' /\ reruns' = reruns) => heap' = heap]_vars

\* all four tabs have run in this script run: the clustering has added its
\* columns to the frame it returns, the load impact tab has derived the hour
C10_Witness ==
  /\ pc = "footer"
  /\ ui.tab1 # <<>>
  /\ \A i \in DOMAIN ui.tab1[1] :
       {"cluster", "cluster_name", "power_kw", "generation_kw"} \subseteq DOMAIN ui.tab1[1][i]
  /\ ui.tab3 # <<>>
  /\ DOMAIN ui.tab3[1] # {}
  /\ ui.tab4 # <<>>
  /\ \A r \in FieldRows("feeder_data") : "cluster" \notin DOMAIN r
  /\ \A r \in FieldRows("ev_charger_data") : "hour" \notin DOMAIN r

\* C11: der_clustering_analysis returns exactly one row per feeder record
\* (same feeder ids, none duplicated or dropped by the two left merges), a
\* feeder with no charger or inverter records gets aggregated power_kw and
\* generation_kw of 0, and every row gets a cluster id in 0..3 and the
\* cluster_name the fixed lookup assigns to that id, never a missing name.
C11_Clustering ==
  ui.tab1 # <<>> =>
    LET out == ui.tab1[1]
        feeders == heap["feeder_data"]
        chargers == heap["ev_charger_data"]
        inverters == heap["solar_inverter_data"]
    IN  /\ Len(out) = Len(feeders)
        /\ \A i \in DOMAIN out : out[i].feeder_id = feeders[i].feeder_id
        /\ Cardinality({out[i].feeder_id : i \in DOMAIN out}) = Len(out)
        /\ \A i \in DOMAIN out :
             /\ out[i].power_kw =
                  SumOf(SelectSeq(chargers,
                                  LAMBDA r : r.feeder_id = out[i].feeder_id),
                        "power_kw")
             /\ out[i].generation_kw =
                  SumOf(SelectSeq(inverters,
                                  LAMBDA r : r.feeder_id = out[i].feeder_id),
                        "generation_kw")
             /\ (\A r \in Rows(chargers) : r.feeder_id # out[i].feeder_id)
                  => out[i].power_kw = 0
             /\ (\A r \in Rows(inverters) : r.feeder_id # out[i].feeder_id)
                  => out[i].generation_kw = 0
             /\ out[i].cluster \in 0..3
             /\ out[i].cluster_name =
                  <<"High DER Density", "Moderate Load Growth",
                    "Constrained Capacity", "Low DER Adoption">>[out[i].cluster + 1]

\* the clustering has returned a frame in which one feeder has neither
\* charger nor inverter records, another sums the power of several charger
\* records, and the first and the last cluster id are both assigned
C11_Witness ==
  /\ ui.tab1 # <<>>
  /\ \E i \in DOMAIN ui.tab1[1] :
       /\ \A r \in FieldRows("ev_charger_data") \cup FieldRows("solar_inverter_data") :
            r.feeder_id # ui.tab1[1][i].feeder_id
       /\ ui.tab1[1][i].power_kw = 0
       /\ ui.tab1[1][i].generation_kw = 0
  /\ \E i \in DOMAIN ui.tab1[1] :
       /\ ui.tab1[1][i].power_kw > 0
       /\ Cardinality({r \in FieldRows("ev_charger_data") :
                         r.feeder_id = ui.tab1[1][i].feeder_id /\ r.power_kw > 0}) >= 2
  /\ \E i \in DOMAIN ui.tab1[1] : ui.tab1[1][i].cluster = 0
  /\ \E i \in DOMAIN ui.tab1[1] : ui.tab1[1][i].cluster = 3

\* C13: for every constraint threshold in 70..95 the 'Immediate Upgrades'
\* count (labelled 'Feeders above threshold') of the Constraint Planning
\* tab equals the number of feeders whose current_load_pct exceeds the
\* threshold, i.e. the 'Constrained Feeders' count of the summary for the
\* same threshold.
C13_UpgradesAreConstrained ==
  (ui.metrics # <<>> /\ ui.tab4 # <<>>) =>
    /\ ui.tab4[1].immediate_upgrades =
         Cardinality({i \in DOMAIN heap["feeder_data"] :
                        heap["feeder_data"][i].current_load_pct
                          > widgets.constraint_threshold * Milli})
    /\ ui.tab4[1].immediate_upgrades = ui.metrics[1].constrained_feeders

\* C14: the 'vs today' deltas of the projected-impact metrics subtract
\* today's values of the same forecast: for every scenario the base-year
\* (2024) forecast row has ev_penetration_pct = 8, solar_penetration_pct =
\* 15 and total_der_mw = 1150, the three baselines subtracted in main,
\* where total_der_mw of any row is
\* (ev_penetration_pct * 7.2 + solar_penetration_pct * 5) * 50.
C14_DeltasVsToday ==
  Constructed =>
    /\ \A r \in FieldRows("adoption_forecasts") :
         /\ r.total_der_mw =
              ((r.ev_penetration_pct * 72) \div 10 + r.solar_penetration_pct * 5) * 50
         /\ r.year = 2024 =>
              /\ r.ev_penetration_pct = 8 * PScale
              /\ r.solar_penetration_pct = 15 * PScale
              /\ r.total_der_mw = 1150 * PScale
    /\ (ui.tab2 # <<>> /\ "total_delta" \in DOMAIN ui.tab2[1]) =>
         \A r \in FieldRows("adoption_forecasts") :
           (r.year = 2024 /\ r.scenario = ui.tab2[1].scenario) =>
             /\ ui.tab2[1].ev_delta = ui.tab2[1].future_ev - r.ev_penetration_pct
             /\ ui.tab2[1].solar_delta = ui.tab2[1].future_solar - r.solar_penetration_pct
             /\ ui.tab2[1].total_delta = ui.tab2[1].future_total_mw - r.total_der_mw

\* C16: the forecast table has exactly one row per (year, scenario) pair for
\* years 2024..2034 and the three scenarios (33 rows), so for every
\* selectable scenario and every selectable horizon 1..10 the lookup of year
\* 2024 + horizon in main finds exactly one row and the projected-impact
\* metrics are always displayed (future_data is never empty).
C16_ForecastLookup ==
  Constructed =>
    LET forecasts == heap["adoption_forecasts"]
    IN  /\ Len(forecasts) = 33
        /\ \A y \in 2024..2034 : \A sc \in {"Conservative", "Moderate", "Aggressive"} :
             Cardinality({i \in DOMAIN forecasts :
                            forecasts[i].year = y /\ forecasts[i].scenario = sc}) = 1
        /\ \A sc \in {"Conservative", "Moderate", "Aggressive"} : \A th \in 1..10 :
             Len(FutureData(forecasts, sc, th)) = 1
        /\ ui.tab2 # <<>> =>
             /\ widgets.forecast_scenario \in {"Conservative", "Moderate", "Aggressive"}
             /\ widgets.time_horizon \in 1..10
             /\ {"future_ev", "future_solar", "future_total_mw"} \subseteq DOMAIN ui.tab2[1]
             /\ \E r \in Rows(forecasts) :
                  /\ r.year = 2024 + widgets.time_horizon
                  /\ r.scenario = widgets.forecast_scenario
                  /\ ui.tab2[1].future_ev = r.ev_penetration_pct
                  /\ ui.tab2[1].future_solar = r.solar_penetration_pct
                  /\ ui.tab2[1].future_total_mw = r.total_der_mw

\* the Adoption Forecasts tab has shown the metrics of the last year of the
\* table, horizon 10, which the user has moved the slider to
C16_Witness ==
  /\ ui.tab2 # <<>>
  /\ widgets.time_horizon = 10
  /\ "future_ev" \in DOMAIN ui.tab2[1]
  /\ reruns = 2

----------------------------------------------------------------------------
(* Claims about failure handling, checked under SpecFaults *)

\* the four tabs, in the order the script renders them
TabOrder == <<"tab1", "tab2", "tab3", "tab4">>

\* the part of the page tab number k has rendered, <<>> if none
TabUi(u, k) ==
  CASE k = 1 -> u.tab1 [] k = 2 -> u.tab2 [] k = 3 -> u.tab3 [] k = 4 -> u.tab4

\* C15: failure handling in main is ordered and isolated: if constructing
\* DERAnalytics raises, an error is reported and rendering stops before any
\* sidebar control, metric card or tab is produced; if rendering one of the
\* four tabs raises, the error is reported for that tab only and every
\* later tab and the footer are still rendered.
C15_FailureHandling ==
  /\ [](pc = "stopped" =>
          /\ ui = [NoUi EXCEPT !.errors = {"init"}]
          /\ widgets = NoWidgets)
  /\ []("init" \in ui.errors => pc = "stopped")
  /\ []((pc = "idle" /\ reruns > 0) =>
          /\ ui.footer
          /\ ui.metrics # <<>>
          /\ \A k \in 1..4 : TabUi(ui, k) # <<>> <=> TabOrder[k] \notin ui.errors)
  /\ [][/\ pc = "stopped" => (pc' = "construct" /\ reruns' = reruns + 1)
        /\ \A k \in 1..4 :
             pc = TabOrder[k] =>
               /\ pc' = (IF k < 4 THEN TabOrder[k + 1] ELSE "footer")
               /\ ui'.errors \in {ui.errors, ui.errors \cup {TabOrder[k]}}
               /\ TabUi(ui', k) # <<>> <=> TabOrder[k] \notin ui'.errors
               /\ \A j \in 1..4 : j # k => TabUi(ui', j) = TabUi(ui, j)
        /\ pc = "footer" => (ui'.footer /\ ui'.errors = ui.errors)]_vars

\* a script run has ended in which tabs 1 and 3 raised and tabs 2 and 4 and
\* the footer were rendered, after an earlier run of the same process was
\* stopped by a construction that raised in the first generator
C15_Witness ==
  /\ pc = "idle"
  /\ reruns = 2
  /\ bodyRuns[1] = 2
  /\ ui.errors = {"tab1", "tab3"}
  /\ ui.tab2 # <<>>
  /\ ui.tab4 # <<>>
  /\ ui.footer

====
